---- MODULE Spec2Model ----
(***************************************************************************)
(* The compliance scan pipeline of app/models/scan.server.ts: product      *)
(* fetch, heuristic match, AI analysis with retry, normalisation, scoring, *)
(* aggregation and persistence, for runFullScan and rescanSingleProduct.   *)
(*                                                                         *)
(* Numbers: a riskScore is kept in hundredths (0.92 is 92), so that        *)
(* riskScore * 35 and the rounding of the scores are integer arithmetic.   *)
(* Math.round(x) is floor(x + 1/2).                                        *)
(***************************************************************************)
EXTENDS Integers, Sequences, FiniteSets, TLC

VARIABLES scans, scanResults, history, openai, schema, reqs, opsStarted, call

vars == <<scans, scanResults, history, openai, schema, reqs, opsStarted, call>>

(***************************************************************************)
(* Bounds of the model.                                                    *)
(***************************************************************************)
MaxOps == 3
MaxPages == 2
MaxScans == 1
MaxViolations == 3

(***************************************************************************)
(* JavaScript values.                                                      *)
(***************************************************************************)
Undefined == "<undefined>"
NullCursor == "<null>"
NullRecord == [isNull |-> TRUE]

Max(a, b) == IF a >= b THEN a ELSE b
Min(a, b) == IF a <= b THEN a ELSE b

\* Math.round of n/d for d > 0: floor(n/d + 1/2)
MathRound(n, d) == (2 * n + d) \div (2 * d)

UpperChars == "ABCDEFGHIJKLMNOPQRSTUVWXYZ"
LowerChars == "abcdefghijklmnopqrstuvwxyz"

toLowerCaseChar(c) ==
    IF \E i \in 1..26 : SubSeq(UpperChars, i, i) = c
    THEN LET i == CHOOSE j \in 1..26 : SubSeq(UpperChars, j, j) = c
         IN SubSeq(LowerChars, i, i)
    ELSE c

RECURSIVE toLowerCase(_)
toLowerCase(s) ==
    IF Len(s) = 0 THEN ""
    ELSE toLowerCaseChar(SubSeq(s, 1, 1)) \o toLowerCase(SubSeq(s, 2, Len(s)))

\* String.prototype.includes
includes(text, word) ==
    \E i \in 0..(Len(text) - Len(word)) : SubSeq(text, i + 1, i + Len(word)) = word

\* Array.prototype.join
RECURSIVE join(_, _)
join(words, sep) ==
    IF Len(words) = 0 THEN ""
    ELSE IF Len(words) = 1 THEN words[1]
    ELSE words[1] \o sep \o join(Tail(words), sep)

RECURSIVE SeqMap(_, _)
SeqMap(F(_), s) == IF s = <<>> THEN <<>> ELSE <<F(Head(s))>> \o SeqMap(F, Tail(s))

RECURSIVE SeqSum(_, _)
SeqSum(F(_), s) == IF s = <<>> THEN 0 ELSE F(Head(s)) + SeqSum(F, Tail(s))

RECURSIVE Flatten(_)
Flatten(ss) == IF ss = <<>> THEN <<>> ELSE Head(ss) \o Flatten(Tail(ss))

(***************************************************************************)
(* data/policyKeywords: the rule table and getPolicyRules.                 *)
(***************************************************************************)
DefaultRules ==
    << [category |-> "Medical Claims", severity |-> "high",
        description |-> "Unsubstantiated medical or therapeutic promises",
        keywords |-> <<"cure", "miracle", "heal instantly", "reverse disease",
                       "prescription strength">>],
       [category |-> "CBD / Controlled Substances", severity |-> "high",
        description |-> "Mentions of CBD, THC, or other restricted substances",
        keywords |-> <<"cbd", "thc", "cannabis", "hemp extract">>],
       [category |-> "Superlatives & Guarantees", severity |-> "medium",
        description |-> "Absolutes that often trigger Google Ads policy warnings",
        keywords |-> <<"best", "guaranteed", "100% success", "risk-free">>],
       [category |-> "Weight Loss Claims", severity |-> "medium",
        description |-> "Bold weight loss promises",
        keywords |-> <<"burn fat", "rapid weight loss", "lose inches", "detox">>] >>

UkRules ==
    << [category |-> "Medicinal Claims (MHRA)", severity |-> "high",
        description |-> "UK MHRA regulated medicinal language",
        keywords |-> <<"mhra approved", "nhs backed", "treats", "clinical cure">>] >>

UsRules ==
    << [category |-> "FDA Compliance", severity |-> "high",
        description |-> "Statements implying FDA approval",
        keywords |-> <<"fda approved", "fda cleared">>] >>

EuRules ==
    << [category |-> "CE Marking", severity |-> "medium",
        description |-> "Missing CE or EU certification references",
        keywords |-> <<"ce mark", "ce certified">>] >>

AuRules ==
    << [category |-> "TGA Advertising", severity |-> "high",
        description |-> "Australia TGA restricted wording",
        keywords |-> <<"tga approved", "australian register of therapeutic goods">>] >>

\* POLICY_KEYWORDS[key] ?? []
POLICY_KEYWORDS(key) ==
    CASE key = "default" -> DefaultRules
      [] key = "uk" -> UkRules
      [] key = "us" -> UsRules
      [] key = "eu" -> EuRules
      [] key = "au" -> AuRules
      [] OTHER -> <<>>

getPolicyRules(market) ==
    LET key == toLowerCase(market)
    IN POLICY_KEYWORDS("default") \o POLICY_KEYWORDS(key)

\* POLICY_KEYWORDS is an object literal: under a key it inherits from
\* Object.prototype (the ones that are their own lower case) POLICY_KEYWORDS[key]
\* is a function or an object, which ?? keeps and the spread cannot iterate
InheritedKeys == {"constructor", "__proto__"}

\* getPolicyRules(market) throws a TypeError
getPolicyRulesThrows(market) == toLowerCase(market) \in InheritedKeys

(***************************************************************************)
(* The market law references.                                              *)
(***************************************************************************)
MARKET_LAW_REFERENCES(key) ==
    CASE key = "uk" ->
           [law |-> "UK CAP Code, ASA guidance & DfT product marketing rules",
            url |-> "https://www.gov.uk/government/publications/e-scooter-trials-guidance-for-users"]
      [] key = "us" ->
           [law |-> "US FTC truth-in-advertising & FDA marketing guidance",
            url |-> "https://www.ftc.gov/business-guidance/advertising-marketing"]
      [] key = "eu" ->
           [law |-> "EU Consumer Protection Regulation & Google Merchant Center EU policies",
            url |-> "https://europa.eu/youreurope/business/product-requirements/index_en.htm"]
      [] key = "au" ->
           [law |-> "Australia ACCC advertising rules & TGA code",
            url |-> "https://www.tga.gov.au/resources/resource/guidance/advertising-code"]
      [] key = "ca" ->
           [law |-> "Canada Competition Bureau advertising standards",
            url |-> "https://www.competitionbureau.gc.ca/eic/site/cb-bc.nsf/eng/03031.html"]
      [] OTHER ->
           [law |-> "Local consumer protection and Google Ads policies",
            url |-> "https://support.google.com/adspolicy"]

getMarketLawReference(market) == MARKET_LAW_REFERENCES(toLowerCase(market))

(***************************************************************************)
(* Severity and risk score.                                                *)
(***************************************************************************)
toSeverityLabel(value) ==
    IF value = "high" THEN "High" ELSE IF value = "low" THEN "Low" ELSE "Medium"

severityToRiskScore(severity) ==
    IF severity = "High" THEN 92 ELSE IF severity = "Medium" THEN 60 ELSE 30

\* a variant that compares without lower-casing
normalizeSeverity_caseSensitive(value) ==
    IF value = Undefined THEN "Medium"
    ELSE IF value = "high" THEN "High"
    ELSE IF value = "low" THEN "Low"
    ELSE "Medium"

\* value is a string, or Undefined for a missing or non-string value
normalizeSeverity(value) ==
    IF value = Undefined THEN "Medium"
    ELSE LET upper == toLowerCase(value)
         IN IF upper = "high" THEN "High"
            ELSE IF upper = "low" THEN "Low"
            ELSE "Medium"

\* a variant that passes a number through unclamped
clampRiskScore_unclamped(score) ==
    IF score.kind = "nan" THEN 50 ELSE score.v

\* score is [kind |-> "num", v |-> hundredths] or [kind |-> "nan", v |-> 0]
clampRiskScore(score) ==
    IF score.kind = "nan" THEN 50
    ELSE Min(100, Max(0, score.v))

\* a ?? b
Coalesce(a, b) == IF a = Undefined THEN b ELSE a

(***************************************************************************)
(* normalizeViolation: raw is one element of the parsed violations array.  *)
(* Its riskScore is [kind |-> "num" | "nan" | "absent", v |-> hundredths]. *)
(***************************************************************************)
normalizeViolation(raw, market) ==
    IF raw.isNull
    THEN [issue |-> "Potential compliance issue",
          policy |-> "Google Ads restricted content",
          law |-> getMarketLawReference(market).law,
          severity |-> "Medium",
          riskScore |-> 50,
          ruleRef |-> "general"]
    ELSE LET severity == normalizeSeverity(raw.severity)
             riskSource == IF raw.riskScore.kind \in {"num", "nan"}
                           THEN raw.riskScore
                           ELSE [kind |-> "num", v |-> severityToRiskScore(severity)]
             lawReference == Coalesce(raw.law, getMarketLawReference(market).law)
         IN [issue |-> Coalesce(raw.issue, Coalesce(raw.reason, "Potential compliance issue")),
             policy |-> Coalesce(raw.policy, "Google Ads restricted content"),
             law |-> lawReference,
             severity |-> severity,
             riskScore |-> clampRiskScore(riskSource),
             ruleRef |-> Coalesce(raw.ruleRef, Coalesce(raw.policy, "general"))]

(***************************************************************************)
(* The heuristic matcher.                                                  *)
(***************************************************************************)
detectPolicyMatches(text, rules) ==
    LET matchOf(rule) ==
            LET matchingWords ==
                    SelectSeq(rule.keywords, LAMBDA keyword : includes(text, toLowerCase(keyword)))
            IN IF Len(matchingWords) > 0
               THEN <<[rule |-> rule, matchingWords |-> matchingWords]>>
               ELSE <<>>
    IN Flatten(SeqMap(matchOf, rules))

buildHeuristicViolations(matches, market, productTitle) ==
    IF Len(matches) = 0 THEN <<>>
    ELSE LET lawReference == getMarketLawReference(market)
             violationOf(m) ==
                 LET severity == toSeverityLabel(m.rule.severity)
                 IN [issue |-> m.rule.description \o ". Flagged terms: "
                                 \o join(m.matchingWords, ", ") \o ".",
                     policy |-> "Google Ads - " \o m.rule.category,
                     law |-> lawReference.law,
                     severity |-> severity,
                     riskScore |-> severityToRiskScore(severity),
                     ruleRef |-> m.rule.category]
         IN SeqMap(violationOf, matches)

(***************************************************************************)
(* stripHtml: /<[^>]*>?/g becomes a space, runs of white space become one  *)
(* space, and the result is trimmed.                                       *)
(***************************************************************************)
IsSpace(c) == c \in {" ", "\n", "\t"}

RECURSIVE AfterTag(_)
AfterTag(s) ==
    IF Len(s) = 0 THEN ""
    ELSE IF SubSeq(s, 1, 1) = ">" THEN SubSeq(s, 2, Len(s))
    ELSE AfterTag(SubSeq(s, 2, Len(s)))

RECURSIVE ReplaceTags(_)
ReplaceTags(s) ==
    IF Len(s) = 0 THEN ""
    ELSE IF SubSeq(s, 1, 1) = "<" THEN " " \o ReplaceTags(AfterTag(SubSeq(s, 2, Len(s))))
    ELSE SubSeq(s, 1, 1) \o ReplaceTags(SubSeq(s, 2, Len(s)))

RECURSIVE CollapseSpaces(_)
CollapseSpaces(s) ==
    IF Len(s) = 0 THEN ""
    ELSE IF IsSpace(SubSeq(s, 1, 1))
         THEN IF Len(s) > 1 /\ IsSpace(SubSeq(s, 2, 2))
              THEN CollapseSpaces(SubSeq(s, 2, Len(s)))
              ELSE " " \o CollapseSpaces(SubSeq(s, 2, Len(s)))
         ELSE SubSeq(s, 1, 1) \o CollapseSpaces(SubSeq(s, 2, Len(s)))

Trim(s) ==
    LET a == IF Len(s) > 0 /\ IsSpace(SubSeq(s, 1, 1)) THEN SubSeq(s, 2, Len(s)) ELSE s
    IN IF Len(a) > 0 /\ IsSpace(SubSeq(a, Len(a), Len(a))) THEN SubSeq(a, 1, Len(a) - 1) ELSE a

stripHtml(raw) == Trim(CollapseSpaces(ReplaceTags(raw)))

(***************************************************************************)
(* dedupeViolations, calculateComplianceScore, upsertFinding,              *)
(* buildAggregateMetrics.                                                  *)
(***************************************************************************)
ViolationKey(violation) == violation.issue \o "|" \o violation.policy \o "|" \o violation.law

RECURSIVE dedupeFrom(_, _)
dedupeFrom(violations, seen) ==
    IF violations = <<>> THEN <<>>
    ELSE LET key == ViolationKey(Head(violations))
         IN IF key \in seen
            THEN dedupeFrom(Tail(violations), seen)
            ELSE <<Head(violations)>> \o dedupeFrom(Tail(violations), seen \cup {key})

dedupeViolations(violations) == dedupeFrom(violations, {})

\* a variant without the floor at 0
calculateComplianceScore_noFloor(violations) ==
    IF Len(violations) = 0 THEN 100
    ELSE LET penalty == SeqSum(LAMBDA violation : violation.riskScore * 35, violations)
         IN MathRound(10000 - penalty, 100)

calculateComplianceScore(violations) ==
    IF Len(violations) = 0 THEN 100
    ELSE LET penalty == SeqSum(LAMBDA violation : violation.riskScore * 35, violations)
         IN Max(0, MathRound(10000 - penalty, 100))

\* results.findIndex(...): 0 stands for -1
findIndex(results, productId) ==
    IF \E i \in 1..Len(results) : results[i].productId = productId
    THEN CHOOSE i \in 1..Len(results) :
            /\ results[i].productId = productId
            /\ \A j \in 1..(i - 1) : results[j].productId # productId
    ELSE 0

\* a variant that never replaces
upsertFinding_appendOnly(results, finding) == Append(results, finding)

upsertFinding(results, finding) ==
    LET existing == findIndex(results, finding.productId)
    IN IF existing >= 1
       THEN [results EXCEPT ![existing] = finding]
       ELSE Append(results, finding)

\* a variant that truncates the mean instead of rounding it
buildAggregateMetrics_truncated(results) ==
    IF Len(results) = 0
    THEN [complianceScore |-> 0, totalViolations |-> 0]
    ELSE [complianceScore |->
              SeqSum(LAMBDA result : result.complianceScore, results) \div Len(results),
          totalViolations |-> SeqSum(LAMBDA result : Len(result.violations), results)]

buildAggregateMetrics(results) ==
    IF Len(results) = 0
    THEN [complianceScore |-> 0, totalViolations |-> 0]
    ELSE [complianceScore |->
              MathRound(SeqSum(LAMBDA result : result.complianceScore, results), Len(results)),
          totalViolations |-> SeqSum(LAMBDA result : Len(result.violations), results)]

(***************************************************************************)
(* The environment: shops, markets, the product catalog behind the admin   *)
(* GraphQL client, and the contents the LLM may return.                    *)
(***************************************************************************)
Procs == {1, 2}
Shops == {"shop-a.myshopify.com", "shop-b.myshopify.com"}
Markets == {"default", "UK"}

\* the (shop, market) pairs runFullScan is called with
FullScanInputs ==
    { [shopDomain |-> "shop-a.myshopify.com", market |-> "default"],
      [shopDomain |-> "shop-b.myshopify.com", market |-> "UK"] }

NoClient == "null"
Client == "OpenAI"

Product1 ==
    [id |-> "gid://shopify/Product/1", title |-> "Miracle CURE",
     descriptionHtml |-> "<p>Best  serum</p> that treats acne", tags |-> <<"skin">>]

Product2 ==
    [id |-> "gid://shopify/Product/2", title |-> "Soap",
     descriptionHtml |-> "<b>Plain</b> bar", tags |-> <<>>]

Catalog == {Product1, Product2}
ProductIds == {product.id : product \in Catalog}

\* the body of one response to PRODUCTS_QUERY
PageBody(nodes, hasNextPage) ==
    [hasData |-> TRUE, nodes |-> nodes, hasNextPage |-> hasNextPage,
     endCursor |-> IF nodes = <<>> THEN NullCursor
                   ELSE "cursor:" \o nodes[Len(nodes)].id]

ErrorsOnlyBody ==
    [hasData |-> FALSE, nodes |-> <<>>, hasNextPage |-> FALSE, endCursor |-> NullCursor]

PageBodies ==
    {PageBody(<<product>>, hasNextPage) : product \in Catalog, hasNextPage \in BOOLEAN}
        \cup {PageBody(<<>>, FALSE), ErrorsOnlyBody}

RawViolationA ==
    [isNull |-> FALSE, issue |-> "Claims to cure acne", reason |-> Undefined,
     policy |-> "Google Ads - Healthcare", law |-> Undefined, severity |-> "HIGH",
     riskScore |-> [kind |-> "num", v |-> 150], ruleRef |-> Undefined]

\* an element without an issue field, with a riskScore below 0
RawViolationB ==
    [isNull |-> FALSE, issue |-> Undefined, reason |-> Undefined,
     policy |-> Undefined, law |-> Undefined, severity |-> "low",
     riskScore |-> [kind |-> "num", v |-> -20], ruleRef |-> Undefined]

\* what one chat.completions.create call may do
AiOutcomes ==
    { [kind |-> "throw", isArray |-> FALSE, violations |-> <<>>],
      [kind |-> "empty", isArray |-> FALSE, violations |-> <<>>],
      [kind |-> "badjson", isArray |-> FALSE, violations |-> <<>>],
      [kind |-> "json", isArray |-> FALSE, violations |-> <<>>],
      [kind |-> "json", isArray |-> TRUE, violations |-> <<>>],
      [kind |-> "json", isArray |-> TRUE, violations |-> <<RawViolationA>>],
      [kind |-> "json", isArray |-> TRUE, violations |-> <<RawViolationB>>] }

AI_FAILED == "AI scan failed. Please retry."

\* the error of the admin client when a request fails
GRAPHQL_FAILED == "graphql request failed"

(***************************************************************************)
(* One request (a call of runFullScan or rescanSingleProduct): its         *)
(* arguments, its position (the await it is suspended at), its locals,     *)
(* and what it has done so far.                                            *)
(***************************************************************************)
IdleRequest ==
    [op |-> "none", pc |-> "idle", shopDomain |-> "", market |-> "", scanId |-> 0,
     productId |-> "", products |-> <<>>, after |-> NullCursor, idx |-> 0,
     findings |-> <<>>, aiFailed |-> <<>>, invalidJson |-> <<>>,
     scanRecord |-> NullRecord,
     product |-> NullRecord, heuristicViolations |-> <<>>, attempt |-> 0,
     updatedResults |-> <<>>, savedId |-> 0, error |-> Undefined,
     graphqlCalls |-> <<>>, pages |-> <<>>, aiCalls |-> 0, sleeps |-> <<>>, aiCalled |-> FALSE,
     dbWrites |-> 0, repeated |-> FALSE]

InFlight(r) == r.pc \notin {"idle", "done"}

combinedText(product) ==
    toLowerCase(product.title \o "\n" \o stripHtml(product.descriptionHtml) \o "\n"
                \o join(product.tags, " ") \o "\n" \o "")

\* a variant whose status looks at the violations before the AI failure
buildFinding_violationsFirst(product, market, shopDomain, heuristicViolations, aiAnalysis) ==
    LET combinedViolations == dedupeViolations(heuristicViolations \o aiAnalysis.violations)
        complianceScore == calculateComplianceScore(combinedViolations)
        status == IF Len(combinedViolations) > 0 THEN "flagged"
                  ELSE IF aiAnalysis.errorMessage # Undefined THEN "error"
                  ELSE "clean"
    IN [productId |-> product.id,
        productTitle |-> product.title,
        market |-> market,
        shopDomain |-> shopDomain,
        violations |-> combinedViolations,
        complianceScore |-> complianceScore,
        status |-> status,
        errorMessage |-> aiAnalysis.errorMessage]

\* the finding analyzeProduct returns, given what buildAiAnalysis returned
buildFinding(product, market, shopDomain, heuristicViolations, aiAnalysis) ==
    LET combinedViolations == dedupeViolations(heuristicViolations \o aiAnalysis.violations)
        complianceScore == calculateComplianceScore(combinedViolations)
        status == IF aiAnalysis.errorMessage # Undefined THEN "error"
                  ELSE IF Len(combinedViolations) > 0 THEN "flagged"
                  ELSE "clean"
    IN [productId |-> product.id,
        productTitle |-> product.title,
        market |-> market,
        shopDomain |-> shopDomain,
        violations |-> combinedViolations,
        complianceScore |-> complianceScore,
        status |-> status,
        errorMessage |-> aiAnalysis.errorMessage]

\* the violations buildAiAnalysis returns for a parsed completion
parsedViolations(outcome, market) ==
    IF outcome.isArray
    THEN SelectSeq(SeqMap(LAMBDA violation : normalizeViolation(violation, market),
                          outcome.violations),
                   LAMBDA violation : violation.issue # "")
    ELSE <<>>

\* the heuristic stage of analyzeProduct, tabulated over the markets and the
\* catalog of the model
heuristicStage ==
    [market \in Markets |->
        [product \in Catalog |->
            LET matches == detectPolicyMatches(combinedText(product), getPolicyRules(market))
            IN buildHeuristicViolations(matches, market, product.title)]]

RECURSIVE analyzeProductReturns(_, _, _)

\* a variant that calls the LLM without looking at the client
analyzeProduct_alwaysCalls(r, product, openAiClient) ==
    LET market == IF r.op = "runFullScan" THEN r.market ELSE r.scanRecord.market
        heuristicViolations == heuristicStage[market][product]
        r1 == [r EXCEPT !.product = product, !.heuristicViolations = heuristicViolations,
                        !.attempt = 0]
    IN [r1 EXCEPT !.pc = "aiCall", !.aiCalls = @ + 1, !.aiCalled = TRUE]

\* analyzeProduct up to its first await: the heuristic stage, then either the
\* first LLM call or, without a client, the finding at once
analyzeProduct(r, product, openAiClient) ==
    LET market == IF r.op = "runFullScan" THEN r.market ELSE r.scanRecord.market
        heuristicViolations == heuristicStage[market][product]
        r1 == [r EXCEPT !.product = product, !.heuristicViolations = heuristicViolations,
                        !.attempt = 0]
    IN IF openAiClient = NoClient
       THEN analyzeProductReturns([r1 EXCEPT !.aiFailed = Append(@, FALSE),
                                             !.invalidJson = Append(@, FALSE)],
                                  [violations |-> <<>>, errorMessage |-> Undefined],
                                  openAiClient)
       ELSE [r1 EXCEPT !.pc = "aiCall", !.aiCalls = @ + 1, !.aiCalled = TRUE]

\* a variant that puts each finding in front of the earlier ones
analyzeProductReturns_prepends(rr, aiAnalysis, openAiClient) ==
    LET r == [rr EXCEPT !.attempt = 0, !.aiCalls = 0, !.sleeps = <<>>]
        market == IF r.op = "runFullScan" THEN r.market ELSE r.scanRecord.market
        finding == buildFinding(r.product, market, r.shopDomain, r.heuristicViolations,
                                aiAnalysis)
    IN IF r.op = "runFullScan"
       THEN LET r1 == [r EXCEPT !.findings = <<finding>> \o @]
            IN IF r.idx < Len(r.products)
               THEN analyzeProduct([r1 EXCEPT !.idx = @ + 1], r.products[r.idx + 1],
                                   openAiClient)
               ELSE [r1 EXCEPT !.pc = "createScan"]
       ELSE [r EXCEPT !.findings = <<finding>>,
                      !.updatedResults = upsertFinding(r.scanRecord.results, finding),
                      !.pc = "updateScan"]

\* the code that runs when analyzeProduct returns, up to the next await; the
\* locals of buildAiAnalysis (attempt, and the calls and sleeps of this product)
\* are gone
analyzeProductReturns(rr, aiAnalysis, openAiClient) ==
    LET r == [rr EXCEPT !.attempt = 0, !.aiCalls = 0, !.sleeps = <<>>]
        market == IF r.op = "runFullScan" THEN r.market ELSE r.scanRecord.market
        finding == buildFinding(r.product, market, r.shopDomain, r.heuristicViolations,
                                aiAnalysis)
    IN IF r.op = "runFullScan"
       THEN LET r1 == [r EXCEPT !.findings = Append(@, finding)]
            IN IF r.idx < Len(r.products)
               THEN analyzeProduct([r1 EXCEPT !.idx = @ + 1], r.products[r.idx + 1],
                                   openAiClient)
               ELSE [r1 EXCEPT !.pc = "createScan"]
       ELSE [r EXCEPT !.findings = <<finding>>,
                      !.updatedResults = upsertFinding(r.scanRecord.results, finding),
                      !.pc = "updateScan"]

Throw(r, message) == [r EXCEPT !.pc = "done", !.error = message]

\* calls run one at a time: a call starts when no other is in flight
CanStart(p) ==
    /\ opsStarted < MaxOps
    /\ \A q \in Procs : ~InFlight(reqs[q])
    /\ p = CHOOSE q \in Procs : \A o \in Procs : q <= o

Step(p, r) == reqs' = [reqs EXCEPT ![p] = r]

(***************************************************************************)
(* runFullScan                                                             *)
(***************************************************************************)
\* the call, up to the first admin.graphql request of fetchAllProducts
StartFullScan(p, shopDomain, market) ==
    /\ CanStart(p)
    /\ Len(scans) < MaxScans
    /\ opsStarted' = opsStarted + 1
    /\ Step(p, [IdleRequest EXCEPT !.op = "runFullScan", !.pc = "fetchPage",
                                   !.shopDomain = shopDomain, !.market = market,
                                   !.after = NullCursor,
                                   !.graphqlCalls = <<NullCursor>>])
    /\ UNCHANGED <<scans, scanResults, history, openai, schema, call>>

\* a variant that looks for the client before it looks at the products
afterFetchAllProducts_clientFirst(r, openAiClient) ==
    IF openAiClient = NoClient THEN Throw(r, "OPENAI_API_KEY missing")
    ELSE IF Len(r.products) = 0 THEN Throw(r, "No products found to scan.")
    ELSE analyzeProduct([r EXCEPT !.idx = 1], r.products[1], openAiClient)

\* the code of runFullScan after the loop of fetchAllProducts
afterFetchAllProducts(r, openAiClient) ==
    IF Len(r.products) = 0 THEN Throw(r, "No products found to scan.")
    ELSE IF openAiClient = NoClient THEN Throw(r, "OPENAI_API_KEY missing")
    ELSE analyzeProduct([r EXCEPT !.idx = 1], r.products[1], openAiClient)

\* a variant that asks for every page without the cursor
FetchPage_withoutCursor(p, body) ==
    LET r == reqs[p]
        nodes == IF body.hasData THEN body.nodes ELSE <<>>
        hasNextPage == body.hasData /\ body.hasNextPage
        after == IF body.hasData THEN body.endCursor ELSE NullCursor
        r1 == [r EXCEPT !.products = @ \o nodes, !.after = after,
                        !.pages = Append(@, body)]
    IN /\ r.pc = "fetchPage"
       /\ hasNextPage => Len(r.graphqlCalls) < MaxPages
       /\ Step(p, IF hasNextPage
                  THEN [r1 EXCEPT !.graphqlCalls = Append(@, NullCursor)]
                  ELSE afterFetchAllProducts(r1, openai))
       /\ UNCHANGED <<scans, scanResults, history, openai, schema, opsStarted, call>>

\* one iteration of the loop of fetchAllProducts: a page arrives; pages notes
\* the bodies received, graphqlCalls the cursors sent
FetchPage(p, body) ==
    LET r == reqs[p]
        nodes == IF body.hasData THEN body.nodes ELSE <<>>
        hasNextPage == body.hasData /\ body.hasNextPage
        after == IF body.hasData THEN body.endCursor ELSE NullCursor
        r1 == [r EXCEPT !.products = @ \o nodes, !.after = after,
                        !.pages = Append(@, body)]
    IN /\ r.pc = "fetchPage"
       /\ hasNextPage => Len(r.graphqlCalls) < MaxPages
       /\ Step(p, IF hasNextPage
                  THEN [r1 EXCEPT !.graphqlCalls = Append(@, after)]
                  ELSE afterFetchAllProducts(r1, openai))
       /\ UNCHANGED <<scans, scanResults, history, openai, schema, opsStarted, call>>

\* admin.graphql throws (transport failure); nothing catches it
GraphqlThrows(p) ==
    /\ reqs[p].pc \in {"fetchPage", "fetchProduct"}
    /\ Step(p, Throw(reqs[p], "graphql request failed"))
    /\ UNCHANGED <<scans, scanResults, history, openai, schema, opsStarted, call>>

(***************************************************************************)
(* buildAiAnalysis: the retry loop around chat.completions.create          *)
(***************************************************************************)
\* a variant that rethrows once the attempts are exhausted
buildAiAnalysis_rethrows(r, outcome, openAiClient) ==
    IF outcome.kind \in {"throw", "badjson"}
    THEN IF r.attempt < 2
         THEN [r EXCEPT !.pc = "sleep", !.sleeps = Append(@, 500 * 2 ^ r.attempt)]
         ELSE Throw([r EXCEPT !.aiFailed = Append(@, TRUE),
                              !.invalidJson = Append(@, outcome.kind = "badjson")],
                    AI_FAILED)
    ELSE IF outcome.kind = "empty"
    THEN analyzeProductReturns(
             [r EXCEPT !.aiFailed = Append(@, FALSE), !.invalidJson = Append(@, FALSE)],
             [violations |-> <<>>, errorMessage |-> Undefined], openAiClient)
    ELSE analyzeProductReturns(
             [r EXCEPT !.aiFailed = Append(@, FALSE), !.invalidJson = Append(@, FALSE)],
             [violations |-> parsedViolations(outcome,
                                 IF r.op = "runFullScan" THEN r.market
                                 ELSE r.scanRecord.market),
              errorMessage |-> Undefined], openAiClient)

\* a variant with one attempt more
buildAiAnalysis_fourAttempts(r, outcome, openAiClient) ==
    IF outcome.kind \in {"throw", "badjson"}
    THEN IF r.attempt < 3
         THEN [r EXCEPT !.pc = "sleep", !.sleeps = Append(@, 500 * 2 ^ r.attempt)]
         ELSE analyzeProductReturns(
                  [r EXCEPT !.aiFailed = Append(@, TRUE),
                            !.invalidJson = Append(@, outcome.kind = "badjson")],
                  [violations |-> <<>>, errorMessage |-> AI_FAILED], openAiClient)
    ELSE IF outcome.kind = "empty"
    THEN analyzeProductReturns(
             [r EXCEPT !.aiFailed = Append(@, FALSE), !.invalidJson = Append(@, FALSE)],
             [violations |-> <<>>, errorMessage |-> Undefined], openAiClient)
    ELSE analyzeProductReturns(
             [r EXCEPT !.aiFailed = Append(@, FALSE), !.invalidJson = Append(@, FALSE)],
             [violations |-> parsedViolations(outcome,
                                 IF r.op = "runFullScan" THEN r.market
                                 ELSE r.scanRecord.market),
              errorMessage |-> Undefined], openAiClient)

\* one attempt of the loop ends: the call threw, or JSON.parse threw on its
\* content (both land in the catch), or a result is returned.  aiFailed notes,
\* per analyzed product, whether the attempts were exhausted, and invalidJson
\* whether the content of the last attempt was not valid JSON.
buildAiAnalysis(r, outcome, openAiClient) ==
    IF outcome.kind \in {"throw", "badjson"}
    THEN IF r.attempt < 2
         THEN [r EXCEPT !.pc = "sleep", !.sleeps = Append(@, 500 * 2 ^ r.attempt)]
         ELSE analyzeProductReturns(
                  [r EXCEPT !.aiFailed = Append(@, TRUE),
                            !.invalidJson = Append(@, outcome.kind = "badjson")],
                  [violations |-> <<>>, errorMessage |-> AI_FAILED], openAiClient)
    ELSE IF outcome.kind = "empty"
    THEN analyzeProductReturns(
             [r EXCEPT !.aiFailed = Append(@, FALSE), !.invalidJson = Append(@, FALSE)],
             [violations |-> <<>>, errorMessage |-> Undefined], openAiClient)
    ELSE analyzeProductReturns(
             [r EXCEPT !.aiFailed = Append(@, FALSE), !.invalidJson = Append(@, FALSE)],
             [violations |-> parsedViolations(outcome,
                                 IF r.op = "runFullScan" THEN r.market
                                 ELSE r.scanRecord.market),
              errorMessage |-> Undefined], openAiClient)

AiResponds(p, outcome) ==
    LET r == reqs[p]
    IN /\ r.pc = "aiCall"
       /\ Step(p, buildAiAnalysis(r, outcome, openai))
       /\ UNCHANGED <<scans, scanResults, history, openai, schema, opsStarted, call>>

\* the backoff timer fires: the next attempt
BackoffElapsed(p) ==
    LET r == reqs[p]
    IN /\ r.pc = "sleep"
       /\ Step(p, [r EXCEPT !.pc = "aiCall", !.attempt = @ + 1, !.aiCalls = @ + 1])
       /\ UNCHANGED <<scans, scanResults, history, openai, schema, opsStarted, call>>

(***************************************************************************)
(* Persistence                                                             *)
(***************************************************************************)
\* prisma.scan.create of runFullScan
CreateScan(p) ==
    LET r == reqs[p]
        aggregate == buildAggregateMetrics(r.findings)
        id == Len(scans) + 1
    IN /\ r.pc = "createScan"
       /\ scans' = Append(scans,
              [id |-> id, shopDomain |-> r.shopDomain, market |-> r.market,
               complianceScore |-> aggregate.complianceScore,
               violations |-> aggregate.totalViolations,
               productsScanned |-> Len(r.findings),
               status |-> "complete",
               results |-> r.findings])
       /\ Step(p, [r EXCEPT !.pc = "createResults", !.savedId = id, !.scanId = id,
                            !.dbWrites = @ + 1])
       /\ UNCHANGED <<scanResults, history, openai, schema, opsStarted, call>>

scanResultRows(scanId, market, findings) ==
    Flatten(SeqMap(LAMBDA finding :
                       SeqMap(LAMBDA violation :
                                  [scanId |-> scanId, productId |-> finding.productId,
                                   ruleRef |-> violation.ruleRef,
                                   severity |-> violation.severity,
                                   riskScore |-> violation.riskScore],
                              finding.violations),
                   findings))

historyRows(scanId, shopDomain, market, findings) ==
    SeqMap(LAMBDA finding :
               [scanId |-> scanId, shopDomain |-> shopDomain,
                productId |-> finding.productId, market |-> market,
                complianceScore |-> finding.complianceScore,
                violations |-> Len(finding.violations)],
           findings)

artifactsMarket(r) == IF r.op = "runFullScan" THEN r.market ELSE r.scanRecord.market

\* persistScanArtifacts, first createMany; a schema without the expected
\* columns makes safeCreateMany skip the write
CreateScanResults(p) ==
    LET r == reqs[p]
    IN /\ r.pc = "createResults"
       /\ scanResults' =
              IF schema.scanResult
              THEN scanResults \o scanResultRows(r.scanId, artifactsMarket(r), r.findings)
              ELSE scanResults
       /\ Step(p, [r EXCEPT !.pc = "createHistory",
                            !.dbWrites = IF schema.scanResult THEN @ + 1 ELSE @])
       /\ UNCHANGED <<scans, history, openai, schema, opsStarted, call>>

\* persistScanArtifacts, second createMany; then the call returns
CreateHistory(p) ==
    LET r == reqs[p]
    IN /\ r.pc = "createHistory"
       /\ history' =
              IF schema.productScanHistory
              THEN history \o historyRows(r.scanId, r.shopDomain, artifactsMarket(r),
                                          r.findings)
              ELSE history
       /\ Step(p, [r EXCEPT !.pc = "done",
                            !.dbWrites = IF schema.productScanHistory THEN @ + 1 ELSE @])
       /\ UNCHANGED <<scans, scanResults, openai, schema, opsStarted, call>>

(***************************************************************************)
(* rescanSingleProduct                                                     *)
(***************************************************************************)
\* the call before this one was a rescan of the same product of the same scan,
\* and it returned
SameRescanReturned(r, scanId, productId) ==
    /\ r.op = "rescanSingleProduct"
    /\ r.pc = "done"
    /\ r.error = Undefined
    /\ r.scanId = scanId
    /\ r.productId = productId

StartRescan(p, shopDomain, scanId, productId) ==
    /\ CanStart(p)
    /\ opsStarted' = opsStarted + 1
    /\ Step(p, [IdleRequest EXCEPT !.op = "rescanSingleProduct", !.pc = "findScan",
                                   !.shopDomain = shopDomain, !.scanId = scanId,
                                   !.productId = productId,
                                   !.repeated = SameRescanReturned(reqs[p], scanId, productId)])
    /\ UNCHANGED <<scans, scanResults, history, openai, schema, call>>

\* a variant without the ownership check
scanNotFound_anyShop(scanRecord, shopDomain) == scanRecord = NullRecord

\* !scanRecord || scanRecord.shopDomain !== shopDomain
scanNotFound(scanRecord, shopDomain) ==
    IF scanRecord = NullRecord THEN TRUE ELSE scanRecord.shopDomain # shopDomain

\* prisma.scan.findUnique returns; the ownership check; the product request
FindScan(p) ==
    LET r == reqs[p]
        scanRecord == IF r.scanId \in 1..Len(scans) THEN scans[r.scanId] ELSE NullRecord
    IN /\ r.pc = "findScan"
       /\ Step(p, IF scanNotFound(scanRecord, r.shopDomain)
                  THEN Throw([r EXCEPT !.scanRecord = scanRecord], "Scan not found")
                  ELSE [r EXCEPT !.scanRecord = scanRecord, !.pc = "fetchProduct",
                                 !.graphqlCalls = Append(@, r.productId)])
       /\ UNCHANGED <<scans, scanResults, history, openai, schema, opsStarted, call>>

\* a variant that skips a missing product without an error
afterFetchProductById_skips(r, product, openAiClient) ==
    IF product = NullRecord
    THEN [r EXCEPT !.pc = "done"]
    ELSE analyzeProduct(r, product, openAiClient)

\* the code of rescanSingleProduct after fetchProductById, up to the next await
afterFetchProductById(r, product, openAiClient) ==
    IF product = NullRecord
    THEN Throw(r, "Product not found")
    ELSE analyzeProduct(r, product, openAiClient)

\* fetchProductById returns body?.data?.product ?? null
FetchProduct(p, product) ==
    LET r == reqs[p]
    IN /\ r.pc = "fetchProduct"
       /\ IF product = NullRecord THEN TRUE ELSE product.id = r.productId
       /\ Step(p, afterFetchProductById(r, product, openai))
       /\ UNCHANGED <<scans, scanResults, history, openai, schema, opsStarted, call>>

\* a variant that merges the finding into the row as it is at the update
UpdateScan_rereads(p) ==
    LET r == reqs[p]
        merged == upsertFinding(scans[r.scanId].results, r.findings[1])
        aggregate == buildAggregateMetrics(merged)
    IN /\ r.pc = "updateScan"
       /\ scans' = [scans EXCEPT ![r.scanId] =
              [@ EXCEPT !.results = merged,
                        !.complianceScore = aggregate.complianceScore,
                        !.violations = aggregate.totalViolations,
                        !.productsScanned = Len(merged)]]
       /\ Step(p, [r EXCEPT !.pc = "deleteResults", !.dbWrites = @ + 1])
       /\ UNCHANGED <<scanResults, history, openai, schema, opsStarted, call>>

\* a variant that writes only the aggregate fields the finding changed
UpdateScan_keepsCount(p) ==
    LET r == reqs[p]
        aggregate == buildAggregateMetrics(r.updatedResults)
    IN /\ r.pc = "updateScan"
       /\ scans' = [scans EXCEPT ![r.scanId] =
              [@ EXCEPT !.results = r.updatedResults,
                        !.complianceScore = aggregate.complianceScore,
                        !.violations = aggregate.totalViolations]]
       /\ Step(p, [r EXCEPT !.pc = "deleteResults", !.dbWrites = @ + 1])
       /\ UNCHANGED <<scanResults, history, openai, schema, opsStarted, call>>

\* prisma.scan.update of rescanSingleProduct
UpdateScan(p) ==
    LET r == reqs[p]
        aggregate == buildAggregateMetrics(r.updatedResults)
    IN /\ r.pc = "updateScan"
       /\ scans' = [scans EXCEPT ![r.scanId] =
              [@ EXCEPT !.results = r.updatedResults,
                        !.complianceScore = aggregate.complianceScore,
                        !.violations = aggregate.totalViolations,
                        !.productsScanned = Len(r.updatedResults)]]
       /\ Step(p, [r EXCEPT !.pc = "deleteResults", !.dbWrites = @ + 1])
       /\ UNCHANGED <<scanResults, history, openai, schema, opsStarted, call>>

\* prisma.scanResult.deleteMany({ where: { scanId, productId } })
DeleteScanResults(p) ==
    LET r == reqs[p]
    IN /\ r.pc = "deleteResults"
       /\ scanResults' = SelectSeq(scanResults,
              LAMBDA row : ~(row.scanId = r.scanId /\ row.productId = r.productId))
       /\ Step(p, [r EXCEPT !.pc = "createResults", !.dbWrites = @ + 1])
       /\ UNCHANGED <<scans, history, openai, schema, opsStarted, call>>

(***************************************************************************)
(* The specification: calls run one at a time.                             *)
(***************************************************************************)
\* the columns persistScanArtifacts writes exist in the database, or do not
Schemas ==
    { [scanResult |-> TRUE, productScanHistory |-> TRUE],
      [scanResult |-> FALSE, productScanHistory |-> FALSE] }

\* call holds one application of a helper function on its own; the pipeline
\* does not use it
NoCall == [fn |-> "none", done |-> TRUE]

Init ==
    /\ scans = <<>>
    /\ scanResults = <<>>
    /\ history = <<>>
    /\ openai \in {Client, NoClient}
    /\ schema \in Schemas
    /\ reqs = [p \in Procs |-> IdleRequest]
    /\ opsStarted = 0
    /\ call = NoCall

Next ==
    \/ \E p \in Procs, input \in FullScanInputs :
           StartFullScan(p, input.shopDomain, input.market)
    \/ \E p \in Procs, body \in PageBodies : FetchPage(p, body)
    \/ \E p \in Procs : GraphqlThrows(p)
    \/ \E p \in Procs, outcome \in AiOutcomes : AiResponds(p, outcome)
    \/ \E p \in Procs : BackoffElapsed(p)
    \/ \E p \in Procs : CreateScan(p)
    \/ \E p \in Procs : CreateScanResults(p)
    \/ \E p \in Procs : CreateHistory(p)
    \/ \E p \in Procs, shopDomain \in Shops, scanId \in 1..MaxScans, productId \in ProductIds :
           StartRescan(p, shopDomain, scanId, productId)
    \/ \E p \in Procs : FindScan(p)
    \/ \E p \in Procs, product \in Catalog \cup {NullRecord} : FetchProduct(p, product)
    \/ \E p \in Procs : UpdateScan(p)
    \/ \E p \in Procs : DeleteScanResults(p)

Spec == Init /\ [][Next]_vars

(***************************************************************************)
(* The same, with restarts of the server process: openai.server is         *)
(* evaluated again, with or without OPENAI_API_KEY; the database stays.    *)
(***************************************************************************)
Restart(client) ==
    /\ \A p \in Procs : ~InFlight(reqs[p])
    /\ openai # client
    /\ openai' = client
    /\ UNCHANGED <<scans, scanResults, history, schema, reqs, opsStarted, call>>

RestartNext ==
    \/ Next
    \/ \E client \in {Client, NoClient} : Restart(client)

RestartSpec == Init /\ [][RestartNext]_vars

(***************************************************************************)
(* Concurrent rescans: the server handles requests concurrently, so a      *)
(* rescan may start while another is suspended at an await.  Full scans    *)
(* still run alone here; they write rows of their own.                     *)
(***************************************************************************)
StartRescanConcurrently(p, shopDomain, scanId, productId) ==
    /\ opsStarted < MaxOps
    /\ ~InFlight(reqs[p])
    /\ \A q \in Procs : InFlight(reqs[q]) => reqs[q].op = "rescanSingleProduct"
    \* requests are alike: a call takes the first free one
    /\ \A q \in Procs : q < p => InFlight(reqs[q])
    /\ opsStarted' = opsStarted + 1
    /\ Step(p, [IdleRequest EXCEPT !.op = "rescanSingleProduct", !.pc = "findScan",
                                   !.shopDomain = shopDomain, !.scanId = scanId,
                                   !.productId = productId,
                                   !.repeated = SameRescanReturned(reqs[p], scanId, productId)])
    /\ UNCHANGED <<scans, scanResults, history, openai, schema, call>>

ConcurrentInit ==
    /\ Init
    /\ openai = Client
    /\ schema = [scanResult |-> TRUE, productScanHistory |-> TRUE]

ConcurrentNext ==
    \/ \E p \in Procs : StartFullScan(p, "shop-a.myshopify.com", "default")
    \/ \E p \in Procs, body \in PageBodies : FetchPage(p, body)
    \/ \E p \in Procs : GraphqlThrows(p)
    \/ \E p \in Procs, outcome \in AiOutcomes : AiResponds(p, outcome)
    \/ \E p \in Procs : BackoffElapsed(p)
    \/ \E p \in Procs : CreateScan(p)
    \/ \E p \in Procs : CreateScanResults(p)
    \/ \E p \in Procs : CreateHistory(p)
    \/ \E p \in Procs, shopDomain \in Shops, scanId \in 1..MaxScans, productId \in ProductIds :
           StartRescanConcurrently(p, shopDomain, scanId, productId)
    \/ \E p \in Procs : FindScan(p)
    \/ \E p \in Procs, product \in Catalog \cup {NullRecord} : FetchProduct(p, product)
    \/ \E p \in Procs : UpdateScan(p)
    \/ \E p \in Procs : DeleteScanResults(p)

ConcurrentSpec == ConcurrentInit /\ [][ConcurrentNext]_vars

(***************************************************************************)
(* The helper functions on their own: one application of one function to   *)
(* an input drawn from a bounded set.                                      *)
(***************************************************************************)
PendingCall(fn, input) ==
    [fn |-> fn, input |-> input, done |-> FALSE, threw |-> FALSE, output |-> Undefined]

Returns(output) == call' = [call EXCEPT !.done = TRUE, !.output = output]

Throws(error) == call' = [call EXCEPT !.done = TRUE, !.threw = TRUE, !.output = error]

Pending(fn) == call.fn = fn /\ ~call.done

PipelineIdle == UNCHANGED <<scans, scanResults, history, openai, schema, reqs, opsStarted>>

\* the market strings getPolicyRules is applied to
MarketInputs ==
    {"default", "Default", "DEFAULT", "uk", "UK", "Uk", "us", "US", "eu", "au", "AU",
     "ca", "fr", "", "constructor"}

Call_getPolicyRules ==
    /\ Pending("getPolicyRules")
    /\ IF getPolicyRulesThrows(call.input)
       THEN Throws("TypeError")
       ELSE Returns(getPolicyRules(call.input))
    /\ PipelineIdle

\* the violations dedupeViolations is applied to: two whose keys collide, one
\* that repeats the first one's issue, policy and law, and one apart
ViolationInputs ==
    { [issue |-> "a|b", policy |-> "c", law |-> "L", severity |-> "High",
       riskScore |-> 92, ruleRef |-> "r1"],
      [issue |-> "a", policy |-> "b|c", law |-> "L", severity |-> "Low",
       riskScore |-> 30, ruleRef |-> "r2"],
      [issue |-> "a|b", policy |-> "c", law |-> "L", severity |-> "Medium",
       riskScore |-> 60, ruleRef |-> "r3"],
      [issue |-> "x", policy |-> "y", law |-> "L", severity |-> "Medium",
       riskScore |-> 60, ruleRef |-> "r4"] }

ViolationLists == UNION {[1..n -> ViolationInputs] : n \in 0..MaxViolations}

Call_dedupeViolations ==
    /\ Pending("dedupeViolations")
    /\ Returns(dedupeViolations(call.input))
    /\ PipelineIdle

\* a word in every letter case
RECURSIVE CaseVariants(_)
CaseVariants(word) ==
    IF Len(word) = 0 THEN {""}
    ELSE LET c == SubSeq(word, 1, 1)
             upperOf == IF \E i \in 1..26 : SubSeq(LowerChars, i, i) = c
                        THEN SubSeq(UpperChars,
                                    CHOOSE i \in 1..26 : SubSeq(LowerChars, i, i) = c,
                                    CHOOSE i \in 1..26 : SubSeq(LowerChars, i, i) = c)
                        ELSE c
         IN {first \o rest : first \in {c, upperOf}, rest \in CaseVariants(Tail(word))}

\* the values normalizeSeverity is applied to: raw.severity of a parsed element
\* is a string, another JSON value, or missing
SeverityInputs ==
    {[type |-> "string", v |-> word] :
        word \in CaseVariants("high") \cup CaseVariants("low")
                 \cup {"medium", "Medium", "critical", "", "highest", " high", "hi gh",
                       "lowest", "h", "severe"}}
        \cup {[type |-> type, v |-> ""] : type \in {"undefined", "null", "number", "boolean",
                                                     "object"}}

Call_normalizeSeverity ==
    /\ Pending("normalizeSeverity")
    /\ Returns(normalizeSeverity(IF call.input.type = "string" THEN call.input.v
                                 ELSE Undefined))
    /\ PipelineIdle

\* the product texts and markets the heuristic matcher is applied to
TextInputs ==
    {"This will cure you", "CURE", "Secure checkout", "Plain soap bar",
     "Best miracle cure", "Treats acne", "NHS backed, treats and cures",
     "Burn fat detox tea", ""}

MatcherInputs ==
    {[text |-> text, market |-> market] : text \in TextInputs, market \in {"default", "uk"}}

\* analyzeProduct lower-cases the combined text, takes the rules of the market
\* and calls detectPolicyMatches
Call_detectPolicyMatches ==
    /\ Pending("detectPolicyMatches")
    /\ Returns(detectPolicyMatches(toLowerCase(call.input.text),
                                   getPolicyRules(call.input.market)))
    /\ PipelineIdle

(***************************************************************************)
(* hydrateDashboard and buildNotifications.  Instants are integers; a      *)
(* stored scan has id, shopDomain, startedAt, completedAt (NoTime for      *)
(* null) and results.                                                      *)
(***************************************************************************)
NoTime == 0

RecentScans == 5

NotificationLimit == 20

isAlert(violation) == violation.severity = "High" \/ violation.riskScore >= 75

notificationOf(scan, result, violation) ==
    [id |-> scan.id \o "-" \o result.productId \o "-" \o violation.ruleRef,
     title |-> violation.severity \o " risk on " \o result.productTitle,
     detail |-> violation.whyMatters,
     severity |-> IF violation.severity = "High" THEN "critical" ELSE "warning",
     createdAt |-> IF scan.completedAt # NoTime THEN scan.completedAt ELSE scan.startedAt]

buildNotifications(scanList) ==
    LET alertsOfResult(scan, result) ==
            LET alertOf(violation) == notificationOf(scan, result, violation)
            IN SeqMap(alertOf, SelectSeq(result.violations, isAlert))
        alertsOfScan(scan) ==
            LET ofResult(result) == alertsOfResult(scan, result)
            IN Flatten(SeqMap(ofResult, scan.results))
        alerts == Flatten(SeqMap(alertsOfScan, scanList))
    IN SubSeq(alerts, 1, Min(NotificationLimit, Len(alerts)))

\* prisma.scan.findMany({ where: { shopDomain }, orderBy: { startedAt: "desc" }, take: 5 })
RECURSIVE orderByStartedAtDesc(_)
orderByStartedAtDesc(rows) ==
    IF rows = {} THEN <<>>
    ELSE LET latest == CHOOSE row \in rows : \A other \in rows : other.startedAt <= row.startedAt
         IN <<latest>> \o orderByStartedAtDesc(rows \ {latest})

findManyScans(rows, shopDomain) ==
    LET ordered == orderByStartedAtDesc({row \in rows : row.shopDomain = shopDomain})
    IN SubSeq(ordered, 1, Min(RecentScans, Len(ordered)))

hydrateDashboard(rows, shopDomain) ==
    LET serialized == findManyScans(rows, shopDomain)
    IN [scans |-> serialized, notifications |-> buildNotifications(serialized)]

\* the violations of the stored findings: the n-th issue of a product, with the
\* severity and riskScore (in hundredths) normalizeViolation can produce
IssueLetters == "ABCDEFGHIJKLMNOPQRSTUVWXYZ"

StoredViolation(n, severity, riskScore, ruleRef) ==
    [issue |-> "Issue " \o SubSeq(IssueLetters, n, n), policy |-> "Google Ads - " \o ruleRef,
     law |-> "Local consumer protection and Google Ads policies",
     severity |-> severity, riskScore |-> riskScore,
     whyMatters |-> "Issue " \o SubSeq(IssueLetters, n, n) \o " matters",
     ruleRef |-> ruleRef]

StoredFinding(product, violations) ==
    [productId |-> product.id, productTitle |-> product.title, violations |-> violations]

\* the first full scan of shop a, whose Product/1 was rescanned at instant 7
ScanRescanned ==
    [id |-> "scan1", shopDomain |-> "shop-a.myshopify.com", startedAt |-> 1, completedAt |-> 7,
     results |-> <<StoredFinding(Product1,
                                 <<StoredViolation(1, "High", 92, "Medical Claims"),
                                   StoredViolation(2, "Low", 30, "Pricing")>>),
                   StoredFinding(Product2, <<>>)>>]

\* a later scan with 21 violations on two products, 20 of them alerts
ScanManyAlerts ==
    [id |-> "scan2", shopDomain |-> "shop-a.myshopify.com", startedAt |-> 2, completedAt |-> 3,
     results |-> <<StoredFinding(Product1,
                                 [n \in 1..11 |->
                                     IF n = 6 THEN StoredViolation(n, "Medium", 74, "Rule F")
                                     ELSE StoredViolation(n, "High", 92,
                                                          "Rule " \o SubSeq(IssueLetters, n, n))]),
                   StoredFinding(Product2,
                                 [n \in 1..10 |->
                                     StoredViolation(n, "Medium", 75,
                                                     "Rule " \o SubSeq(IssueLetters, n, n))])>>]

\* a scan where the keyword rule and the LLM both report Medical Claims on
\* Product/1, under different issues
ScanSameRuleTwice ==
    [id |-> "scan3", shopDomain |-> "shop-a.myshopify.com", startedAt |-> 4, completedAt |-> 5,
     results |-> <<StoredFinding(Product1,
                                 <<StoredViolation(1, "High", 92, "Medical Claims"),
                                   StoredViolation(2, "High", 92, "Medical Claims"),
                                   StoredViolation(3, "Low", 80, "Pricing"),
                                   StoredViolation(4, "Medium", 60, "Superlatives & Guarantees")>>)>>]

ScanOtherShop ==
    [id |-> "scan4", shopDomain |-> "shop-b.myshopify.com", startedAt |-> 6, completedAt |-> 6,
     results |-> <<StoredFinding(Product2,
                                 <<StoredViolation(1, "High", 92, "Medical Claims")>>)>>]

StoredScans == {ScanRescanned, ScanManyAlerts, ScanSameRuleTwice, ScanOtherShop}

DashboardInputs ==
    {[rows |-> rows, shopDomain |-> shopDomain] :
        rows \in SUBSET StoredScans, shopDomain \in Shops}

Call_hydrateDashboard ==
    /\ Pending("hydrateDashboard")
    /\ Returns(hydrateDashboard(call.input.rows, call.input.shopDomain))
    /\ PipelineIdle

FunctionsInit ==
    /\ scans = <<>>
    /\ scanResults = <<>>
    /\ history = <<>>
    /\ openai = Client
    /\ schema = [scanResult |-> TRUE, productScanHistory |-> TRUE]
    /\ reqs = [p \in Procs |-> IdleRequest]
    /\ opsStarted = 0
    /\ \/ \E market \in MarketInputs : call = PendingCall("getPolicyRules", market)
       \/ \E violations \in ViolationLists :
              call = PendingCall("dedupeViolations", violations)
       \/ \E value \in SeverityInputs : call = PendingCall("normalizeSeverity", value)
       \/ \E input \in MatcherInputs : call = PendingCall("detectPolicyMatches", input)
       \/ \E input \in DashboardInputs : call = PendingCall("hydrateDashboard", input)

FunctionsNext ==
    \/ Call_getPolicyRules
    \/ Call_dedupeViolations
    \/ Call_normalizeSeverity
    \/ Call_detectPolicyMatches
    \/ Call_hydrateDashboard

FunctionsSpec == FunctionsInit /\ [][FunctionsNext]_vars

Called(fn) == call.fn = fn /\ call.done

(***************************************************************************)
(* Properties                                                              *)
(***************************************************************************)
\* the elements of a sequence
Range(s) == {s[i] : i \in 1..Len(s)}

\* C11: for every market string m, getPolicyRules(m) returns the default rules
\* followed by the rules registered under lowercase(m); the result contains
\* every rule of getPolicyRules("default"), is the same for m in any letter
\* case, and is exactly the default rules for a market with no rules of its own.
C11_DefaultThenMarketRules ==
    Called("getPolicyRules") =>
        LET key == toLowerCase(call.input)
            own == IF key \in {"default", "uk", "us", "eu", "au"}
                   THEN POLICY_KEYWORDS(key) ELSE <<>>
        IN /\ ~call.threw
           /\ call.output = DefaultRules \o own
           /\ Range(getPolicyRules("default")) \subseteq Range(call.output)
           /\ call.output = getPolicyRules(key)
           /\ own = <<>> => call.output = DefaultRules

Returned(r, op) == r.op = op /\ r.pc = "done" /\ r.error = Undefined

TotalRisk(violations) == SeqSum(LAMBDA violation : violation.riskScore, violations)

SumOfScores(results) == SeqSum(LAMBDA result : result.complianceScore, results)

CountWithProduct(results, productId) ==
    Cardinality({i \in 1..Len(results) : results[i].productId = productId})

\* m is sum/n rounded to the nearest integer, halves up
IsRoundedMean(m, sum, n) == 2 * n * m - n <= 2 * sum /\ 2 * sum < 2 * n * m + n

FreshAggregates(scan) ==
    /\ scan.productsScanned = Len(scan.results)
    /\ scan.violations = SeqSum(LAMBDA result : Len(result.violations), scan.results)
    /\ IF Len(scan.results) = 0
       THEN scan.complianceScore = 0
       ELSE IsRoundedMean(scan.complianceScore, SumOfScores(scan.results), Len(scan.results))

\* C1: every persisted Scan row has complianceScore = the rounded mean of its
\* findings' scores (0 without findings), violations = the sum of its findings'
\* violation counts, and productsScanned = the number of its findings.
C1_AggregatesMatchResults == \A i \in 1..Len(scans) : FreshAggregates(scans[i])

\* a rescan has returned, and the scan has two findings whose mean is a half
C1_Witness ==
    \E p \in Procs :
        /\ Returned(reqs[p], "rescanSingleProduct")
        /\ reqs[p].dbWrites > 0
        /\ Len(scans[reqs[p].scanId].results) = 2
        /\ SumOfScores(scans[reqs[p].scanId].results) % 2 = 1
        /\ scans[reqs[p].scanId].violations > 0

\* C2 (as claimed): after two rescans in a row of the same product of the same
\* scan, the scan's results hold exactly one finding with that productId and
\* its aggregate fields are a fresh aggregation of the results.
C2_RescanTwiceLeavesOneFinding ==
    \A p \in Procs :
        (Returned(reqs[p], "rescanSingleProduct") /\ reqs[p].repeated)
            => /\ CountWithProduct(scans[reqs[p].scanId].results, reqs[p].productId) = 1
               /\ FreshAggregates(scans[reqs[p].scanId])

\* C3: the update of a rescan changes one entry of the scan's results: the new
\* finding stands at the index of the first finding with its productId, or at
\* the end when there was none, and every other entry (and every other scan)
\* is as it was, at the index it had.
C3_RescanChangesOneEntry ==
    [][\A p \in Procs :
          (reqs[p].pc = "updateScan" /\ reqs'[p].pc # "updateScan")
              => LET old == scans[reqs[p].scanId].results
                     new == scans'[reqs[p].scanId].results
                     finding == reqs[p].findings[1]
                     at == {i \in 1..Len(old) : old[i].productId = reqs[p].productId}
                 IN /\ finding.productId = reqs[p].productId
                    /\ Len(scans') = Len(scans)
                    /\ \A j \in 1..Len(scans) : j # reqs[p].scanId => scans'[j] = scans[j]
                    /\ IF at # {}
                       THEN LET k == CHOOSE i \in at : \A j \in at : i <= j
                            IN /\ Len(new) = Len(old)
                               /\ new[k] = finding
                               /\ \A i \in 1..Len(old) : i # k => new[i] = old[i]
                       ELSE /\ Len(new) = Len(old) + 1
                            /\ new[Len(new)] = finding
                            /\ \A i \in 1..Len(old) : new[i] = old[i]]_vars

\* a rescan has replaced the second of two findings
C3_Witness ==
    \E p \in Procs :
        /\ Returned(reqs[p], "rescanSingleProduct")
        /\ Len(reqs[p].scanRecord.results) = 2
        /\ reqs[p].scanRecord.results[1].productId # reqs[p].productId
        /\ reqs[p].scanRecord.results[2].productId = reqs[p].productId
        /\ scans[reqs[p].scanId].results[2] # reqs[p].scanRecord.results[2]

\* C4: a rescan of a scan that does not exist, or that another shop owns,
\* throws "Scan not found" having sent no GraphQL request, made no LLM call
\* and written nothing: no table changes.
C4_ForeignScanRejected ==
    [][\A p \in Procs :
          (/\ reqs[p].pc = "findScan"
           /\ reqs'[p] # reqs[p]
           /\ IF reqs[p].scanId \in 1..Len(scans)
              THEN scans[reqs[p].scanId].shopDomain # reqs[p].shopDomain
              ELSE TRUE)
              => /\ reqs'[p].pc = "done"
                 /\ reqs'[p].error = "Scan not found"
                 /\ reqs'[p].graphqlCalls = <<>>
                 /\ reqs'[p].aiCalled = FALSE
                 /\ reqs'[p].dbWrites = 0
                 /\ UNCHANGED <<scans, scanResults, history>>]_vars

\* a rescan of another shop's scan has thrown
C4_Witness ==
    \E p \in Procs :
        /\ reqs[p].op = "rescanSingleProduct"
        /\ reqs[p].pc = "done"
        /\ reqs[p].error = "Scan not found"
        /\ reqs[p].scanId \in 1..Len(scans)
        /\ scans[reqs[p].scanId].shopDomain # reqs[p].shopDomain
        /\ Len(scans[reqs[p].scanId].results) > 0

\* C5: when fetchAllProducts returns no product, runFullScan throws "No
\* products found to scan." having made no LLM call and written nothing.
C5_NoProductsThrows ==
    [][\A p \in Procs :
          (/\ reqs[p].op = "runFullScan"
           /\ reqs[p].pc = "fetchPage"
           /\ reqs'[p].pc # "fetchPage"
           /\ reqs'[p].error # GRAPHQL_FAILED
           /\ reqs'[p].products = <<>>)
              => /\ reqs'[p].pc = "done"
                 /\ reqs'[p].error = "No products found to scan."
                 /\ reqs'[p].aiCalled = FALSE
                 /\ reqs'[p].dbWrites = 0
                 /\ UNCHANGED <<scans, scanResults, history>>]_vars

\* a full scan whose listing was empty has thrown; the LLM client is not set
C5_Witness ==
    \E p \in Procs :
        /\ reqs[p].op = "runFullScan"
        /\ reqs[p].pc = "done"
        /\ reqs[p].products = <<>>
        /\ reqs[p].error = "No products found to scan."
        /\ openai = NoClient

\* C6 (as claimed): without an LLM client a full scan whose fetch returned at
\* least one product does not fail: it returns, and its Scan row is persisted
\* with one heuristic-only finding per product.
C6_NoClientScanSucceeds ==
    \A p \in Procs :
        (/\ openai = NoClient
         /\ reqs[p].op = "runFullScan"
         /\ reqs[p].pc = "done"
         /\ reqs[p].error # GRAPHQL_FAILED
         /\ Len(reqs[p].products) > 0)
            => /\ reqs[p].error = Undefined
               /\ reqs[p].savedId \in 1..Len(scans)
               /\ Len(scans[reqs[p].savedId].results) = Len(reqs[p].products)

\* C7: a full scan of N >= 1 products that the fetch delivered returns with a
\* Scan of N findings, the i-th for the i-th product, whatever the LLM did;
\* where the attempts were exhausted the finding has status "error", the
\* message "AI scan failed. Please retry." and exactly the deduplicated
\* heuristic violations of its product.
C7_AiFailureDoesNotAbort ==
    \A p \in Procs :
        (/\ openai = Client
         /\ reqs[p].op = "runFullScan"
         /\ reqs[p].pc = "done"
         /\ reqs[p].error # GRAPHQL_FAILED
         /\ Len(reqs[p].products) > 0)
            => /\ reqs[p].error = Undefined
               /\ reqs[p].savedId \in 1..Len(scans)
               /\ LET results == scans[reqs[p].savedId].results
                  IN /\ Len(results) = Len(reqs[p].products)
                     /\ Len(reqs[p].aiFailed) = Len(reqs[p].products)
                     /\ \A i \in 1..Len(results) :
                           /\ results[i].productId = reqs[p].products[i].id
                           /\ reqs[p].aiFailed[i] =>
                                 /\ results[i].status = "error"
                                 /\ results[i].errorMessage = "AI scan failed. Please retry."
                                 /\ results[i].violations =
                                        dedupeViolations(
                                            heuristicStage[reqs[p].market][reqs[p].products[i]])

\* the LLM failed for the first of two products and answered for the second
C7_Witness ==
    \E p \in Procs :
        /\ Returned(reqs[p], "runFullScan")
        /\ Len(reqs[p].products) = 2
        /\ reqs[p].aiFailed = <<TRUE, FALSE>>
        /\ scans[reqs[p].savedId].results[1].violations # <<>>
        /\ scans[reqs[p].savedId].results[2].status # "error"

\* C8: a stored finding without AI failure is "clean" exactly when it has no
\* violation and "flagged" otherwise; a finding is "error", with the message
\* set, exactly when the attempts of the LLM call were exhausted for it.
C8_StatusMatchesViolations ==
    /\ \A i \in 1..Len(scans) : \A j \in 1..Len(scans[i].results) :
          LET finding == scans[i].results[j]
          IN IF finding.errorMessage # Undefined
             THEN finding.status = "error"
             ELSE /\ finding.status = "clean" <=> finding.violations = <<>>
                  /\ finding.status = "flagged" <=> finding.violations # <<>>
    /\ \A p \in Procs : \A i \in 1..Len(reqs[p].findings) :
          /\ i <= Len(reqs[p].aiFailed)
          /\ reqs[p].aiFailed[i] <=> reqs[p].findings[i].status = "error"
          /\ reqs[p].aiFailed[i] <=>
                 reqs[p].findings[i].errorMessage = "AI scan failed. Please retry."
          /\ ~reqs[p].aiFailed[i] => reqs[p].findings[i].errorMessage = Undefined

\* a scan holds an "error" finding with violations, and a "clean" one
C8_Witness ==
    \E i \in 1..Len(scans) :
        /\ \E j \in 1..Len(scans[i].results) :
              /\ scans[i].results[j].status = "error"
              /\ scans[i].results[j].violations # <<>>
        /\ \E j \in 1..Len(scans[i].results) :
              /\ scans[i].results[j].status = "clean"

\* C9: the complianceScore of every finding is max(0, round(100 - 35 * the sum
\* of its riskScores)): 100 without violations, within 0..100, and the same for
\* the same violations.
C9_ScoreFormula ==
    LET Findings ==
            UNION { {scans[i].results[j] : j \in 1..Len(scans[i].results)} : i \in 1..Len(scans) }
              \cup UNION { {reqs[p].findings[j] : j \in 1..Len(reqs[p].findings)} : p \in Procs }
        \* hundredths of 100 - 35 * sum
        x100(finding) == 10000 - 35 * TotalRisk(finding.violations)
    IN /\ \A finding \in Findings :
             /\ finding.complianceScore \in 0..100
             /\ finding.violations = <<>> => finding.complianceScore = 100
             \* the score is the nearest integer (halves up), or 0 below it
             /\ finding.complianceScore > 0 =>
                   /\ 100 * finding.complianceScore - 50 <= x100(finding)
                   /\ x100(finding) < 100 * finding.complianceScore + 50
             /\ finding.complianceScore = 0 => x100(finding) < 50
       /\ \A f, g \in Findings :
             f.violations = g.violations => f.complianceScore = g.complianceScore

\* a stored finding whose penalty exceeds 100 has score 0
C9_Witness ==
    \E i \in 1..Len(scans) : \E j \in 1..Len(scans[i].results) :
        /\ 35 * TotalRisk(scans[i].results[j].violations) > 10050
        /\ scans[i].results[j].complianceScore = 0

\* C10: when fetchProductById returns null, rescanSingleProduct throws "Product
\* not found" having made no LLM call and written nothing: no table changes.
C10_MissingProductThrows ==
    [][\A p \in Procs :
          (/\ reqs[p].pc = "fetchProduct"
           /\ reqs'[p].pc # "fetchProduct"
           /\ reqs'[p].error # GRAPHQL_FAILED
           /\ reqs'[p].product = NullRecord)
              => /\ reqs'[p].pc = "done"
                 /\ reqs'[p].error = "Product not found"
                 /\ reqs'[p].aiCalled = FALSE
                 /\ reqs'[p].dbWrites = 0
                 /\ UNCHANGED <<scans, scanResults, history>>]_vars

\* a rescan of a product that is gone has thrown; the scan has results and
\* history
C10_Witness ==
    \E p \in Procs :
        /\ reqs[p].op = "rescanSingleProduct"
        /\ reqs[p].pc = "done"
        /\ reqs[p].error = "Product not found"
        /\ reqs[p].scanRecord # NullRecord
        /\ CountWithProduct(reqs[p].scanRecord.results, reqs[p].productId) = 1
        /\ history # <<>>

\* every finding of the pipeline: persisted in a Scan row, or held by a call
AllFindings ==
    UNION {Range(scans[i].results) : i \in 1..Len(scans)}
        \cup UNION {Range(reqs[p].findings) \cup Range(reqs[p].updatedResults) : p \in Procs}

\* the elements the LLM may report in the model
RawViolations == UNION {Range(outcome.violations) : outcome \in AiOutcomes}

\* a number n as the claim clamps it to [0, 1], in hundredths
ClampedTo01(n) == IF n < 0 THEN 0 ELSE IF n > 100 THEN 100 ELSE n

SeverityTable(severity) ==
    CASE severity = "high" -> 92 [] severity = "medium" -> 60 [] severity = "low" -> 30

\* per market, what a heuristic violation of each rule carries when its score
\* is the one of the rule's severity in the fixed table (0.92, 0.6, 0.3)
HeuristicScores ==
    [market \in Markets |->
        {[ruleRef |-> rule.category, policy |-> "Google Ads - " \o rule.category,
          riskScore |-> SeverityTable(rule.severity)] :
            rule \in Range(getPolicyRules(market))}]

ScoredBySeverityTable(violation, market) ==
    [ruleRef |-> violation.ruleRef, policy |-> violation.policy,
     riskScore |-> violation.riskScore] \in HeuristicScores[market]

\* what an element the LLM reported carries when its numeric riskScore is
\* clamped
ReportedScores ==
    {[policy |-> Coalesce(raw.policy, "Google Ads restricted content"),
      riskScore |-> ClampedTo01(raw.riskScore.v)] :
        raw \in {rv \in RawViolations : rv.riskScore.kind = "num"}}

ScoredByClampedReport(violation) ==
    [policy |-> violation.policy, riskScore |-> violation.riskScore] \in ReportedScores

\* C12: every violation of every finding the pipeline produces has a riskScore
\* within [0, 1] (0..100 hundredths): a numeric riskScore reported by the LLM is
\* clamped (below 0 to 0, above 1 to 1), a heuristic violation has the score of
\* its severity in the fixed table, and clampRiskScore takes NaN to 0.5.
C12_RiskScoreWithinUnitInterval ==
    /\ clampRiskScore([kind |-> "nan", v |-> 0]) = 50
    /\ \A finding \in AllFindings : \A i \in 1..Len(finding.violations) :
           LET violation == finding.violations[i]
           IN /\ violation.riskScore \in 0..100
              /\ \/ ScoredBySeverityTable(violation, finding.market)
                 \/ ScoredByClampedReport(violation)

\* persisted findings hold a reported 1.5 clamped to 1, a reported -0.2 clamped
\* to 0, and a heuristic 0.92
C12_Witness ==
    LET stored == UNION {Range(finding.violations) :
                            finding \in UNION {Range(scans[i].results) : i \in 1..Len(scans)}}
    IN /\ \E violation \in stored :
              violation.issue = RawViolationA.issue /\ violation.riskScore = 100
       /\ \E violation \in stored :
              violation.issue = "Potential compliance issue" /\ violation.riskScore = 0
       /\ \E violation \in stored :
              violation.ruleRef = "Medical Claims" /\ violation.riskScore = 92

\* the history points of one product of one scan
HistoryPoints(rows, scanId, productId) ==
    Cardinality({i \in 1..Len(rows) :
                    rows[i].scanId = scanId /\ rows[i].productId = productId})

\* C13: ProductScanHistory is append-only: no step updates or deletes a row;
\* a runFullScan that returns has appended exactly one point per finding, which
\* makes one point for each scanned product (k = 0 rescans, k + 1 points); a
\* rescanSingleProduct that returns has appended exactly one point, for the
\* rescanned product.
C13_HistoryAppendOnly ==
    [][/\ Len(history') >= Len(history)
       /\ SubSeq(history', 1, Len(history)) = history
       /\ \A p \in Procs :
              (reqs[p].pc # "done" /\ Returned(reqs'[p], "runFullScan"))
                  => /\ Len(history') = Len(history) + Len(reqs'[p].findings)
                     /\ \A finding \in Range(reqs'[p].findings) :
                            HistoryPoints(history', reqs'[p].scanId, finding.productId) = 1
       /\ \A p \in Procs :
              (reqs[p].pc # "done" /\ Returned(reqs'[p], "rescanSingleProduct"))
                  => /\ Len(history') = Len(history) + 1
                     /\ history'[Len(history')].scanId = reqs'[p].scanId
                     /\ history'[Len(history')].productId = reqs'[p].productId]_vars

\* the analysis of a product returned to the caller in this step
AnalysisReturned(r, r2) == Len(r2.aiFailed) = Len(r.aiFailed) + 1

\* C14: for one product the analyzer makes at most 3 LLM calls; it sleeps 500
\* ms after a failed first attempt and 1000 ms after a failed second one, then
\* calls again; after the third attempt it neither sleeps nor calls again but
\* returns; when all three failed it returns no violations and the message
\* "AI scan failed. Please retry." (the finding holds the heuristic violations
\* alone), and no outcome of an attempt makes the call throw.
C14_ThreeAttemptsWithBackoff ==
    [][\A p \in Procs :
          LET r == reqs[p]
              r2 == reqs'[p]
          IN /\ r2.aiCalls <= 3
             /\ (r.pc = "aiCall" /\ r2.pc = "sleep")
                    => /\ r.aiCalls < 3
                       /\ r2.sleeps = SubSeq(<<500, 1000>>, 1, r.aiCalls)
             /\ (r.pc = "sleep" /\ r2 # r)
                    => /\ r2.pc = "aiCall"
                       /\ r2.aiCalls = r.aiCalls + 1
                       /\ r2.sleeps = r.sleeps
             /\ (r.pc = "aiCall" /\ r2 # r)
                    => /\ r2.error = Undefined
                       /\ r.aiCalls = 3 => AnalysisReturned(r, r2)
             /\ (r.pc = "aiCall" /\ AnalysisReturned(r, r2) /\ r2.aiFailed[Len(r2.aiFailed)])
                    => LET finding == r2.findings[IF r.op = "runFullScan"
                                                  THEN Len(r2.aiFailed) ELSE 1]
                       IN /\ r.aiCalls = 3
                          /\ r.sleeps = <<500, 1000>>
                          /\ finding.errorMessage = "AI scan failed. Please retry."
                          /\ finding.productId = r.product.id
                          /\ finding.violations = dedupeViolations(r.heuristicViolations)]_vars

\* a rescan whose three LLM calls all failed has its finding and goes on to the
\* update
C14_Witness ==
    \E p \in Procs :
        /\ reqs[p].op = "rescanSingleProduct"
        /\ reqs[p].pc = "updateScan"
        /\ reqs[p].aiFailed = <<TRUE>>
        /\ reqs[p].findings[1].errorMessage = AI_FAILED
        /\ reqs[p].findings[1].violations # <<>>

\* C15: without a client (openai is null) the analyzer returns no violations
\* and no errorMessage at once: the call that reached it goes on with a finding
\* of the heuristic violations alone, nothing is thrown, no LLM call is made
\* and no backoff sleep is taken.
C15_NoClientNoCallNoError ==
    [][\A p \in Procs :
          LET r == reqs[p]
              r2 == reqs'[p]
          IN (/\ openai = NoClient
              /\ r.pc = "fetchProduct"
              /\ r2 # r
              /\ r2.product # NullRecord
              /\ r2.error # GRAPHQL_FAILED)
                 => /\ r2.pc = "updateScan"
                    /\ r2.error = Undefined
                    /\ r2.aiCalled = FALSE
                    /\ r2.aiCalls = 0
                    /\ r2.sleeps = <<>>
                    /\ r2.aiFailed = <<FALSE>>
                    /\ r2.findings[1].errorMessage = Undefined
                    /\ r2.findings[1].status # "error"
                    /\ r2.findings[1].violations = dedupeViolations(r2.heuristicViolations)]_vars

\* a rescan returned without a client: its finding holds heuristic violations
C15_Witness ==
    \E p \in Procs :
        /\ openai = NoClient
        /\ Returned(reqs[p], "rescanSingleProduct")
        /\ reqs[p].aiCalled = FALSE
        /\ reqs[p].findings[1].status = "flagged"
        /\ reqs[p].findings[1] \in Range(scans[reqs[p].scanId].results)

\* per market, the normalized elements the LLM may report with an issue field
ReportedWithIssue ==
    [market \in Markets |->
        {normalizeViolation(raw, market) :
            raw \in {rv \in RawViolations : rv.issue # Undefined}}]

\* per market and product id, the heuristic violations of the product
HeuristicOf ==
    [market \in Markets |->
        [productId \in ProductIds |->
            Range(heuristicStage[market][CHOOSE product \in Catalog :
                                            product.id = productId])]]

\* C16: an element of the violations array of the LLM that has no issue field
\* is dropped: every violation of every finding is a heuristic violation of
\* the finding's product or comes from a reported element with an issue
\* field.
C16_ElementsWithoutIssueDropped ==
    \A finding \in AllFindings : \A violation \in Range(finding.violations) :
        \/ violation \in HeuristicOf[finding.market][finding.productId]
        \/ violation \in ReportedWithIssue[finding.market]

\* the finding of the k-th product a call analyzed
FindingOfAnalysis(r, k) == IF r.op = "runFullScan" THEN r.findings[k] ELSE r.findings[1]

\* C17: when the content the LLM returned is not valid JSON, the analyzer
\* returns no violations and no errorMessage and throws nothing: the finding
\* holds the heuristic violations alone and its status is not "error".
C17_InvalidJsonIsNoViolations ==
    \A p \in Procs : \A k \in 1..Len(reqs[p].invalidJson) :
        reqs[p].invalidJson[k] =>
            /\ reqs[p].error = Undefined
            /\ FindingOfAnalysis(reqs[p], k).errorMessage = Undefined
            /\ FindingOfAnalysis(reqs[p], k).status # "error"
            /\ FindingOfAnalysis(reqs[p], k).violations
                   = dedupeViolations(heuristicStage[FindingOfAnalysis(reqs[p], k).market]
                                          [reqs[p].products[k]])

Triple(violation) == <<violation.issue, violation.policy, violation.law>>

\* the elements of V whose (issue, policy, law) no earlier element of V has, in
\* their order in V
RECURSIVE FirstOfEachTriple(_, _)
FirstOfEachTriple(V, earlier) ==
    IF V = <<>> THEN <<>>
    ELSE IF Triple(Head(V)) \in earlier
         THEN FirstOfEachTriple(Tail(V), earlier)
         ELSE <<Head(V)>> \o FirstOfEachTriple(Tail(V), earlier \cup {Triple(Head(V))})

\* C18: dedupeViolations(V) has no two elements with equal (issue, policy,
\* law), and it is the first element of V of each such triple, in the order of
\* V.
C18_DedupeKeepsFirstOfEachTriple ==
    Called("dedupeViolations") =>
        /\ \A i, j \in 1..Len(call.output) :
               i # j => Triple(call.output[i]) # Triple(call.output[j])
        /\ call.output = FirstOfEachTriple(call.input, {})

\* C19: normalizeSeverity returns High, Medium or Low for every input and
\* never throws: "high" in any letter case gives High, "low" in any letter
\* case gives Low, every other string and every non-string or missing value
\* gives Medium.
C19_SeverityNormalized ==
    Called("normalizeSeverity") =>
        /\ ~call.threw
        /\ call.output \in {"High", "Medium", "Low"}
        /\ call.output =
               IF call.input.type # "string" THEN "Medium"
               ELSE IF call.input.v \in CaseVariants("high") THEN "High"
               ELSE IF call.input.v \in CaseVariants("low") THEN "Low"
               ELSE "Medium"

\* "hIgH" was normalized to High
C19_Witness ==
    /\ Called("normalizeSeverity")
    /\ call.input = [type |-> "string", v |-> "hIgH"]
    /\ call.output = "High"

\* keyword is a substring of text, letter case apart
ContainsIgnoringCase(text, keyword) == includes(toLowerCase(text), toLowerCase(keyword))

\* C20: the heuristic matcher returns a match for a rule exactly when one of
\* the rule's keywords is a substring of the product text, letter case apart
\* and word boundaries ignored, and the match lists exactly those keywords in
\* the rule's order; for a text that contains "cure" and no other keyword
\* under market "default" the result is one match, on "Medical Claims" with
\* the keywords <<"cure">>.
C20_MatcherReturnsKeywordMatches ==
    Called("detectPolicyMatches") =>
        LET text == call.input.text
            rules == getPolicyRules(call.input.market)
            Found(rule) == SelectSeq(rule.keywords,
                                     LAMBDA keyword : ContainsIgnoringCase(text, keyword))
        IN /\ \A rule \in Range(rules) :
                  (\E match \in Range(call.output) : match.rule = rule)
                      <=> Found(rule) # <<>>
           /\ \A match \in Range(call.output) : match.matchingWords = Found(match.rule)
           /\ (/\ call.input.market = "default"
               /\ \A rule \in Range(rules) :
                      Found(rule) = IF rule.category = "Medical Claims"
                                    THEN <<"cure">> ELSE <<>>)
                 => call.output = <<[rule |-> DefaultRules[1], matchingWords |-> <<"cure">>]>>

\* C21: a rescan writes the Scan row from its own earlier read (last writer
\* wins): its update sets results to the results it read with its finding put
\* in, whatever another rescan wrote to the row in between; so two concurrent
\* rescans of two products of a scan can end with the earlier writer's finding
\* absent from the row.
C21_LastWriterWins ==
    [][\A p \in Procs :
          (reqs[p].pc = "updateScan" /\ reqs'[p].pc = "deleteResults")
              => LET r == reqs[p]
                     written == upsertFinding(r.scanRecord.results, r.findings[1])
                 IN /\ scans'[r.scanId].results = written
                    /\ \A q \in Procs \ {p} :
                           (/\ Returned(reqs[q], "rescanSingleProduct")
                            /\ reqs[q].scanId = r.scanId
                            /\ reqs[q].productId # r.productId
                            /\ reqs[q].scanRecord = r.scanRecord
                            /\ reqs[q].findings[1] \notin Range(r.scanRecord.results))
                               => reqs[q].findings[1] \notin Range(scans'[r.scanId].results)]_vars

\* two rescans of two products of one scan read the same row and both
\* returned; the row holds the finding of one and not the finding of the other
C21_Witness ==
    \E p, q \in Procs :
        /\ p # q
        /\ Returned(reqs[p], "rescanSingleProduct")
        /\ Returned(reqs[q], "rescanSingleProduct")
        /\ reqs[p].scanId = reqs[q].scanId
        /\ reqs[p].productId # reqs[q].productId
        /\ reqs[p].scanRecord = reqs[q].scanRecord
        /\ reqs[p].findings[1] \notin Range(reqs[p].scanRecord.results)
        /\ reqs[p].findings[1] \notin Range(scans[reqs[p].scanId].results)
        /\ reqs[q].findings[1] \in Range(scans[reqs[q].scanId].results)
        /\ scans[reqs[q].scanId].results = reqs[q].updatedResults

\* C22: with concurrent rescans of a scan, every state the Scan row is written
\* to is consistent in itself: complianceScore, violations and productsScanned
\* are the aggregation over the results of that same row.
C22_EveryWriteConsistent ==
    [][\A i \in 1..Len(scans') :
          (i > Len(scans) \/ scans'[i] # scans[i]) => FreshAggregates(scans'[i])]_vars

\* one rescan has written the row while another, which read the row before
\* that write, is about to write it
C22_Witness ==
    \E p, q \in Procs :
        /\ p # q
        /\ reqs[p].op = "rescanSingleProduct" /\ reqs[p].pc = "deleteResults"
        /\ reqs[q].op = "rescanSingleProduct" /\ reqs[q].pc = "updateScan"
        /\ reqs[p].scanId = reqs[q].scanId
        /\ reqs[q].scanRecord # scans[reqs[q].scanId]
        /\ Len(reqs[q].updatedResults) # Len(scans[reqs[q].scanId].results)

\* C23: in every persisted Scan, results holds at most one finding per
\* productId, whatever the calls made and the pages the listing returned.
C23_OneFindingPerProduct ==
    \A i \in 1..Len(scans) : \A productId \in ProductIds :
        CountWithProduct(scans[i].results, productId) <= 1

\* Boolean(pageInfo?.hasNextPage) of a response body
HasNextPage(body) == body.hasData /\ body.hasNextPage

\* the nodes of the pages, concatenated in page order
RECURSIVE NodesOf(_)
NodesOf(pages) ==
    IF pages = <<>> THEN <<>>
    ELSE (IF Head(pages).hasData THEN Head(pages).nodes ELSE <<>>) \o NodesOf(Tail(pages))

\* fetchAllProducts has returned to runFullScan
FetchReturned(r) ==
    r.op = "runFullScan" /\ r.pc # "fetchPage" /\ r.error # GRAPHQL_FAILED

\* C24: fetchAllProducts sends its first request with a null cursor and every
\* later one with the endCursor of the page before it; it asks again only
\* after a page whose hasNextPage is true, and once a page has it false it
\* returns the nodes of all pages received, concatenated in page order, having
\* sent exactly as many requests as there are pages.
C24_CursorPagination ==
    \A p \in Procs :
        LET r == reqs[p]
        IN r.op = "runFullScan" =>
              /\ r.graphqlCalls[1] = NullCursor
              /\ \A k \in 2..Len(r.graphqlCalls) :
                     /\ HasNextPage(r.pages[k - 1])
                     /\ r.graphqlCalls[k] = r.pages[k - 1].endCursor
              /\ r.pc = "fetchPage" =>
                     /\ Len(r.graphqlCalls) = Len(r.pages) + 1
                     /\ \A k \in 1..Len(r.pages) : HasNextPage(r.pages[k])
              /\ FetchReturned(r) =>
                     /\ Len(r.pages) >= 1
                     /\ Len(r.graphqlCalls) = Len(r.pages)
                     /\ \A k \in 1..Len(r.pages) :
                            HasNextPage(r.pages[k]) <=> k < Len(r.pages)
                     /\ r.products = NodesOf(r.pages)

\* a listing of two pages was fetched with two requests, the second with the
\* cursor of the first page
C24_Witness ==
    \E p \in Procs :
        /\ FetchReturned(reqs[p])
        /\ Len(reqs[p].pages) = 2
        /\ reqs[p].graphqlCalls = <<NullCursor, reqs[p].pages[1].endCursor>>
        /\ reqs[p].pages[1].endCursor # NullCursor
        /\ reqs[p].products = <<Product1, Product2>>

\* the last page the call received carried no product data
LastPageWithoutData(r) ==
    r.op = "runFullScan" /\ Len(r.pages) >= 1 /\ ~r.pages[Len(r.pages)].hasData

\* C25: a page response without product data ends the paging like an empty
\* last page: fetchAllProducts asks for no further page and returns the
\* products accumulated so far without raising; runFullScan then throws "No
\* products found to scan." when there are none, and otherwise scans and
\* persists exactly those products.
C25_PageWithoutDataEndsListing ==
    \A p \in Procs :
        LET r == reqs[p]
        IN LastPageWithoutData(r) =>
              /\ r.pc # "fetchPage"
              /\ Len(r.graphqlCalls) = Len(r.pages)
              /\ r.products = NodesOf(SubSeq(r.pages, 1, Len(r.pages) - 1))
              /\ r.products = <<>> <=> r.error = "No products found to scan."
              /\ r.products # <<>> =>
                     /\ r.error = Undefined
                     /\ r.pc = "done" =>
                            /\ r.savedId \in 1..Len(scans)
                            /\ Len(scans[r.savedId].results) = Len(r.products)
                            /\ \A i \in 1..Len(r.products) :
                                   scans[r.savedId].results[i].productId = r.products[i].id

\* C26: within one runFullScan the products are analyzed one at a time in
\* fetch order: while the LLM call (or the backoff) of the i-th product is
\* pending, the findings of exactly the products before it are complete and no
\* other product is under analysis; the k-th finding is the one of the k-th
\* fetched product, and results[i] of the persisted Scan is that finding.
C26_OneProductAtATimeInOrder ==
    \A p \in Procs :
        LET r == reqs[p]
        IN r.op = "runFullScan" =>
              /\ \A k \in 1..Len(r.findings) :
                     /\ k <= Len(r.products)
                     /\ r.findings[k].productId = r.products[k].id
                     /\ r.findings[k].productTitle = r.products[k].title
              /\ r.pc \in {"aiCall", "sleep"} =>
                     /\ r.idx \in 1..Len(r.products)
                     /\ r.product = r.products[r.idx]
                     /\ Len(r.findings) = r.idx - 1
                     /\ r.aiCalls = r.attempt + 1
              /\ (r.pc \in {"createResults", "createHistory", "done"} /\ r.error = Undefined) =>
                     /\ Len(r.findings) = Len(r.products)
                     /\ scans[r.savedId].results = r.findings

\* a listing that returned Product/2 before Product/1 was scanned and persisted
C26_Witness ==
    \E p \in Procs :
        /\ Returned(reqs[p], "runFullScan")
        /\ reqs[p].products = <<Product2, Product1>>
        /\ scans[reqs[p].savedId].results[1].productId = Product2.id
        /\ scans[reqs[p].savedId].results[2].productId = Product1.id

\* the positions <<i, j, k>> of the violations of the given scans that are of
\* severity High or of riskScore 0.75 and more
HighOrRisky(scanList) ==
    {pos \in UNION {UNION {{<<i, j, k>> : k \in 1..Len(scanList[i].results[j].violations)} :
                              j \in 1..Len(scanList[i].results)} : i \in 1..Len(scanList)} :
        LET violation == scanList[pos[1]].results[pos[2]].violations[pos[3]]
        IN violation.severity = "High" \/ violation.riskScore >= 75}

ProducedAt(scanList, pos) ==
    IF scanList[pos[1]].completedAt # NoTime THEN scanList[pos[1]].completedAt
    ELSE scanList[pos[1]].startedAt

DerivedFrom(notification, scanList, pos) ==
    LET scan == scanList[pos[1]]
        result == scan.results[pos[2]]
        violation == result.violations[pos[3]]
    IN /\ notification.id = scan.id \o "-" \o result.productId \o "-" \o violation.ruleRef
       /\ notification.detail = violation.whyMatters
       /\ notification.createdAt = ProducedAt(scanList, pos)

LimitedToAlerts(notifications, scanList) ==
    /\ Len(notifications) <= 20
    /\ Len(notifications) = Min(20, Cardinality(HighOrRisky(scanList)))
    /\ \A n \in 1..Len(notifications) :
           \E pos \in HighOrRisky(scanList) : DerivedFrom(notifications[n], scanList, pos)

\* of the alerts produced after any instant, as many are kept as the limit allows
KeepsMostRecent(notifications, scanList) ==
    \A i \in 1..Len(scanList) :
        LET instant == ProducedAt(scanList, <<i>>) - 1
        IN Cardinality({n \in 1..Len(notifications) : notifications[n].createdAt > instant})
               = Min(20, Cardinality({pos \in HighOrRisky(scanList) :
                                        ProducedAt(scanList, pos) > instant}))

\* C27: buildNotifications returns at most 20 notifications, each derived
\* from a violation of the given scans with severity High or riskScore >= 0.75,
\* none from a violation that fails both tests, and when more than 20
\* violations qualify it keeps the 20 most recently produced.
C27_AtMostTwentyMostRecentAlerts ==
    Called("hydrateDashboard") =>
        /\ LimitedToAlerts(call.output.notifications, call.output.scans)
        /\ Cardinality(HighOrRisky(call.output.scans)) > 20 =>
               KeepsMostRecent(call.output.notifications, call.output.scans)

\* C28: the list returned by buildNotifications never contains two
\* notifications with the same id {scanId}-{productId}-{ruleRef}: the same
\* rule on the same product of the same scan yields one alert.
C28_NotificationIdsUnique ==
    Called("hydrateDashboard") =>
        \A i, j \in 1..Len(call.output.notifications) :
            call.output.notifications[i].id = call.output.notifications[j].id => i = j

\* C29: dedupeViolations removes a violation only when an earlier element of
\* the list has the same issue, the same policy and the same law: an element
\* whose (issue, policy, law) differs from that of every earlier element is in
\* the result, whatever characters the three strings contain.
C29_DistinctTriplesKept ==
    Called("dedupeViolations") =>
        \A i \in 1..Len(call.input) :
            (\A j \in 1..(i - 1) : Triple(call.input[j]) # Triple(call.input[i]))
                => call.input[i] \in Range(call.output)

\* C30: for every market string m, "default" in any letter case included,
\* getPolicyRules(m) lists each rule once, so the heuristic matcher yields at
\* most one match per rule.
C30_EachRuleListedOnce ==
    /\ (Called("getPolicyRules") /\ ~call.threw) =>
           \A i, j \in 1..Len(call.output) : call.output[i] = call.output[j] => i = j
    /\ Called("detectPolicyMatches") =>
           \A i, j \in 1..Len(call.output) :
               call.output[i].rule = call.output[j].rule => i = j

====
